---- MODULE Spec2Model ----
(***************************************************************************)
(* Model of the getui REST client (src/client.go): the process-wide        *)
(* singleton session, its token acquisition and renewal loop, and the      *)
(* dispatch operations that stamp the stored token on outgoing requests.   *)
(*                                                                         *)
(* Threads: one foreground caller and the renewal goroutine started by     *)
(* client.init.  The remote service is the environment: every HTTP call    *)
(* is answered by any response of the endpoint's response set.             *)
(*                                                                         *)
(* A Go string is two machine words (data pointer, length).  The client    *)
(* takes no lock, so the renewal goroutine's assignment to c.authToken     *)
(* races with the readers; the assignment is modelled as two word writes   *)
(* in either order.                                                        *)
(*                                                                         *)
(* Not modelled: the application identifier (it only selects the URL, and  *)
(* http.NewRequest is taken to succeed), the message payloads, and the     *)
(* value of the clock (lastUpdateTokenTime only records that a tick set    *)
(* it).                                                                    *)
(***************************************************************************)
EXTENDS Integers, Sequences, FiniteSets, TLC

\* ------------------------------------------------------------------ bounds
\* number of distinct tokens the remote service hands out
MaxToken == 2

\* ------------------------------------------------------------- constants
DefaultHeartbeat == 20

\* ---------------------------------------------------------------- domains
Tokens == 1..MaxToken
AppKeys == {"K1", "K2"}
Heartbeats == {0, 5}
\* a JSON field that the response does not carry
Absent == "<absent>"

\* the string held in c.authToken: data pointer (0 = nil, t = buffer of
\* token t) and length in bytes; token t is t bytes long
EmptyStr == [ptr |-> 0, len |-> 0]
Str(t) == [ptr |-> t, len |-> t]
StrLen(s) == s.len

InitParams == [AppKey : AppKeys, AuthHeartbeat : Heartbeats]
CoreInitParams ==
  {[AppKey |-> "K1", AuthHeartbeat |-> 0], [AppKey |-> "K2", AuthHeartbeat |-> 5]}

\* requests are recorded as sent at http.DefaultClient.Do
Req(ep, tok, appkey, reqid, taskid) ==
  [ep |-> ep, tok |-> tok, appkey |-> appkey, reqid |-> reqid, taskid |-> taskid]

\* ------------------------------------------------------- remote responses
\* "neterr": Do fails; "readerr": ReadAll fails; "badjson": Unmarshal fails;
\* "json": the body decodes
FailKinds == {"neterr", "readerr", "badjson"}
NoRsp ==
  [kind |-> "none", http |-> 0, result |-> Absent, taskid |-> Absent,
   desc |-> Absent, requestID |-> Absent, auth_token |-> 0, lastlogin |-> Absent]
FailRsps == {[NoRsp EXCEPT !.kind = k] : k \in FailKinds}
\* auth_sign: result "ok" comes with a token, any other result without
AuthSignRsps ==
  FailRsps \cup
  {[NoRsp EXCEPT !.kind = "json", !.http = 200, !.result = "ok", !.auth_token = t] :
      t \in Tokens} \cup
  {[NoRsp EXCEPT !.kind = "json", !.http = 200, !.result = "error",
                 !.desc = "sign error"]}
\* endpoints answering with the RspBody envelope: the responses used where
\* the caller runs concurrently with the renewal loop
CoreRsps ==
  FailRsps \cup
  {[NoRsp EXCEPT !.kind = "json", !.http = 200, !.result = "ok", !.taskid = "T1"],
   [NoRsp EXCEPT !.kind = "json", !.http = 200, !.result = "error",
                 !.desc = "quota exceeded"]}
\* ... and every envelope, used where the decoding itself is examined
EnvelopeRsps ==
  FailRsps \cup
  {[NoRsp EXCEPT !.kind = "json", !.http = h, !.result = r, !.taskid = t,
                 !.desc = d, !.requestID = q] :
      h \in {200, 500}, r \in {"ok", "error"}, t \in {Absent, "T1"},
      d \in {Absent, "quota exceeded"}, q \in {Absent, "RX"}}
\* user_status
CoreUserStatusRsps ==
  FailRsps \cup
  {[NoRsp EXCEPT !.kind = "json", !.http = 200, !.result = r] :
      r \in {"ok", "no_user", "error"}}
UserStatusRsps ==
  FailRsps \cup
  {[NoRsp EXCEPT !.kind = "json", !.http = 200, !.result = r, !.lastlogin = l] :
      r \in {"ok", "no_user", "error"}, l \in {Absent, "1000", "abc"}}

\* ----------------------------------------------------------- Go values
\* (*RspBody)(nil)
NilRsp == [Result |-> "<nil>", TaskID |-> "", Desc |-> "", Status |-> "", RequestID |-> ""]
\* &RspBody{}
ZeroRsp == [Result |-> "", TaskID |-> "", Desc |-> "", Status |-> "", RequestID |-> ""]
\* (*UserStatus)(nil) and &UserStatus{}
NilUS == [Result |-> "<nil>", LastLoginUnix |-> "", LastLogin |-> 0]
ZeroUS == [Result |-> "", LastLoginUnix |-> "", LastLogin |-> 0]
\* error values are the parts of the formatted message; nil is the empty one
NoErr == << >>
Errorf(prefix, parts) == <<prefix>> \o parts
IsErr(e) == e # NoErr
\* the message contains the text s
Contains(e, s) == s = "" \/ \E i \in 1..Len(e) : e[i] = s

\* ------------------------------------------------------ pure parts of code
\* json.Unmarshal(rspBody, ret) into an RspBody that already holds init:
\* a field the body carries overwrites, any other field keeps its value
UnmarshalRsp(rsp, init) ==
  [Result |-> IF rsp.result = Absent THEN init.Result ELSE rsp.result,
   TaskID |-> IF rsp.taskid = Absent THEN init.TaskID ELSE rsp.taskid,
   Desc |-> IF rsp.desc = Absent THEN init.Desc ELSE rsp.desc,
   Status |-> init.Status,
   RequestID |-> IF rsp.requestID = Absent THEN init.RequestID ELSE rsp.requestID]

\* fmt's %v of a *RspBody: &{Result TaskID Desc Status RequestID}
FmtV(ret) == <<ret.Result, ret.TaskID, ret.Desc, ret.Status, ret.RequestID>>

\* the part every envelope operation shares after http.DefaultClient.Do:
\* transport, read and decode failures, then the check of ret.Result
\* variant of EnvelopeRet that returns the decoded body without looking at ret.Result
EnvelopeRetUnchecked(tag, init, rsp) ==
  IF rsp.kind \in FailKinds THEN [res |-> NilRsp, err |-> Errorf(tag, <<rsp.kind>>)]
  ELSE [res |-> UnmarshalRsp(rsp, init), err |-> NoErr]
EnvelopeRet(tag, init, rsp) ==
  IF rsp.kind = "neterr" THEN [res |-> NilRsp, err |-> Errorf(tag, <<"send failed">>)]
  ELSE IF rsp.kind = "readerr" THEN [res |-> NilRsp, err |-> Errorf(tag, <<"body unreadable">>)]
  ELSE IF rsp.kind = "badjson" THEN [res |-> NilRsp, err |-> Errorf(tag, <<"JSON undecodable">>)]
  ELSE LET ret == UnmarshalRsp(rsp, init) IN
       IF ret.Result # "ok"
       THEN [res |-> NilRsp, err |-> Errorf(tag, <<"not ok, ret:">> \o FmtV(ret))]
       ELSE [res |-> ret, err |-> NoErr]

\* client.CloseAuth after Do: the error of a non-ok result carries ret.Desc
CloseAuthRet(rsp) ==
  IF rsp.kind = "neterr" THEN [res |-> NilRsp, err |-> Errorf("[CloseAuth]", <<"send failed">>)]
  ELSE IF rsp.kind = "readerr" THEN [res |-> NilRsp, err |-> Errorf("[CloseAuth]", <<"body unreadable">>)]
  ELSE IF rsp.kind = "badjson" THEN [res |-> NilRsp, err |-> Errorf("[CloseAuth]", <<"JSON undecodable">>)]
  ELSE LET ret == UnmarshalRsp(rsp, ZeroRsp) IN
       IF ret.Result # "ok"
       THEN [res |-> NilRsp, err |-> Errorf("[CloseAuth]", <<"failed, desc:", ret.Desc>>)]
       ELSE [res |-> ret, err |-> NoErr]

\* strconv.FormatInt(time.Now().UnixNano(), 12): some non-empty numeral
GenRequestID == "2a5b08"

\* PushToSingle: the target check, the stamping of the body, the result
PushToSingleValid(body) == ~(body.CID = "" /\ body.Alias = "")
\* variant of PushToSingleStamp that always generates the identifier
PushToSingleStampAlways(body) == [body EXCEPT !.RequestID = GenRequestID]
PushToSingleStamp(body) ==
  IF body.RequestID = "" THEN [body EXCEPT !.RequestID = GenRequestID] ELSE body
PushToSingleRet(body, rsp) ==
  EnvelopeRet("[PushToSingle]", [ZeroRsp EXCEPT !.RequestID = body.RequestID], rsp)

\* PushToApp (its messages carry the [PushToSingle] tag)
PushToAppStamp(body) ==
  IF body.RequestID = "" THEN [body EXCEPT !.RequestID = GenRequestID] ELSE body
PushToAppRet(body, rsp) ==
  EnvelopeRet("[PushToSingle]", [ZeroRsp EXCEPT !.RequestID = body.RequestID], rsp)

\* StopTask
StopTaskRet(rsp) == EnvelopeRet("[StopTask]", ZeroRsp, rsp)

\* saveListBody and PushToList (body.CID is a list of device identifiers)
SaveListBodyRet(rsp) == EnvelopeRet("[saveListBody]", ZeroRsp, rsp)
\* variant of PushToListValid without the target check
PushToListValidNoCheck(body) == TRUE
PushToListValid(body) == ~(Len(body.CID) = 0 /\ body.Alias = "")
\* what PushToList does with the outcome of the save phase: give up, or go on
\* to push_list with the task identifier of the saved body
\* variant of PushToListAfterSave that drops the error of the save phase
PushToListAfterSaveIgnoringErr(saved) ==
  [push |-> TRUE, taskid |-> saved.res.TaskID, err |-> NoErr]
PushToListAfterSave(saved) ==
  IF IsErr(saved.err)
  THEN [push |-> FALSE, taskid |-> "", err |-> Errorf("[PushToList] save failed", saved.err)]
  ELSE [push |-> TRUE, taskid |-> saved.res.TaskID, err |-> NoErr]
PushToListRet(taskid, rsp) ==
  EnvelopeRet("[PushToList]", [ZeroRsp EXCEPT !.TaskID = taskid], rsp)

\* strconv.Atoi on the lastlogin values of the response set
Atoi(str) ==
  IF str = "1000" THEN [n |-> 1000, err |-> NoErr]
  ELSE [n |-> 0, err |-> <<"strconv.Atoi: invalid syntax">>]

\* client.UserStatus after Do
\* variant of UserStatusRet that hands back an empty UserStatus when Do fails
UserStatusRetZeroOnSendFailure(rsp) ==
  IF rsp.kind = "neterr" THEN [res |-> ZeroUS, err |-> Errorf("[UserStatus]", <<"send failed">>)]
  ELSE IF rsp.kind = "readerr" THEN [res |-> NilUS, err |-> Errorf("[UserStatus]", <<"body unreadable">>)]
  ELSE IF rsp.kind = "badjson" THEN [res |-> NilUS, err |-> Errorf("[UserStatus]", <<"JSON undecodable">>)]
  ELSE LET ret == [ZeroUS EXCEPT
                     !.Result = IF rsp.result = Absent THEN "" ELSE rsp.result,
                     !.LastLoginUnix = IF rsp.lastlogin = Absent THEN "" ELSE rsp.lastlogin]
           a == Atoi(ret.LastLoginUnix)
       IN
       IF ret.LastLoginUnix # "" /\ IsErr(a.err)
       THEN [res |-> ret, err |-> a.err]
       ELSE LET ret2 == IF ret.LastLoginUnix # ""
                        THEN [ret EXCEPT !.LastLogin = a.n \div 1000] ELSE ret
            IN IF ret2.Result # "ok"
               THEN [res |-> ret2,
                     err |-> Errorf("[UserStatus]", <<"not ok, ret:", ret2.Result>>)]
               ELSE [res |-> ret2, err |-> NoErr]
UserStatusRet(rsp) ==
  IF rsp.kind = "neterr" THEN [res |-> NilUS, err |-> Errorf("[UserStatus]", <<"send failed">>)]
  ELSE IF rsp.kind = "readerr" THEN [res |-> NilUS, err |-> Errorf("[UserStatus]", <<"body unreadable">>)]
  ELSE IF rsp.kind = "badjson" THEN [res |-> NilUS, err |-> Errorf("[UserStatus]", <<"JSON undecodable">>)]
  ELSE LET ret == [ZeroUS EXCEPT
                     !.Result = IF rsp.result = Absent THEN "" ELSE rsp.result,
                     !.LastLoginUnix = IF rsp.lastlogin = Absent THEN "" ELSE rsp.lastlogin]
           a == Atoi(ret.LastLoginUnix)
       IN
       IF ret.LastLoginUnix # "" /\ IsErr(a.err)
       THEN [res |-> ret, err |-> a.err]
       ELSE LET ret2 == IF ret.LastLoginUnix # ""
                        THEN [ret EXCEPT !.LastLogin = a.n \div 1000] ELSE ret
            IN IF ret2.Result # "ok"
               THEN [res |-> ret2,
                     err |-> Errorf("[UserStatus]", <<"not ok, ret:", ret2.Result>>)]
               ELSE [res |-> ret2, err |-> NoErr]

\* client.UserExisted over the outcome of UserStatus
UserExistedRet(us) ==
  IF IsErr(us.err)
  THEN [existed |-> FALSE, err |-> Errorf("[UserExisted]", us.err)]
  ELSE IF us.res.Result = "no_user"
  THEN [existed |-> FALSE, err |-> NoErr]
  ELSE [existed |-> TRUE, err |-> NoErr]

\* refreshAuth, line 204: a held token is closed first
\* variant of NeedClose with the comparison inverted
NeedCloseInverted(tok) == StrLen(tok) = 0
NeedClose(tok) == StrLen(tok) > 0

\* refreshAuth after the auth_sign round trip: the error it returns, and the
\* token it stores (ret.Result is decoded and never looked at)
RefreshAuthDecode(rsp) ==
  IF rsp.kind = "neterr" THEN [err |-> Errorf("[refreshAuth]", <<"send failed">>), store |-> FALSE, tok |-> 0]
  ELSE IF rsp.kind = "readerr" THEN [err |-> Errorf("[refreshAuth]", <<"body unreadable">>), store |-> FALSE, tok |-> 0]
  ELSE IF rsp.kind = "badjson" THEN [err |-> Errorf("[refreshAuth]", <<"JSON undecodable">>), store |-> FALSE, tok |-> 0]
  ELSE [err |-> NoErr, store |-> TRUE, tok |-> rsp.auth_token]

\* refreshAuth after CloseAuth returned: give up on an error
\* variant of RefreshAuthAfterClose that goes on after a failed CloseAuth
RefreshAuthAfterCloseBestEffort(closed) == [sign |-> TRUE, err |-> NoErr]
RefreshAuthAfterClose(closed) ==
  IF IsErr(closed.err)
  THEN [sign |-> FALSE, err |-> Errorf("[refreshAuth] close failed", closed.err)]
  ELSE [sign |-> TRUE, err |-> NoErr]

\* ------------------------------------------------------------------ inputs
NoParams == [AppKey |-> "", AuthHeartbeat |-> 0]
SingleBodies == [CID : {"", "c1"}, Alias : {"", "a1"}, RequestID : {"", "R1"}]
CoreSingleBodies ==
  {[CID |-> "c1", Alias |-> "", RequestID |-> ""],
   [CID |-> "", Alias |-> "", RequestID |-> "R1"]}
AppBodies == [RequestID : {"", "R1"}]
CoreAppBodies == {[RequestID |-> ""]}
ListBodies == [CID : {<< >>, <<"c1">>}, Alias : {"", "a1"}]
CoreListBodies == {[CID |-> <<"c1">>, Alias |-> ""], [CID |-> << >>, Alias |-> ""]}
TaskIDs == {"T1"}
CIDs == {"c1"}

\* ------------------------------------------------------------------- state
VARIABLES
  single,     \* the package variable: "nil" or "client"
  creds,      \* single's InitParams
  authToken,  \* single.authToken, as the two words in memory
  lastUpdateTokenTime,  \* single.lastUpdateTokenTime: "zero" or "tick"
  held,       \* the caller holds a Client that Init returned
  loopPc,     \* the renewal goroutine: "none", "start", "ticker"
  ra,         \* per thread, the activation of refreshAuth
  call,       \* the caller's current operation and what it returned
  stored,     \* every string that was at some point completely in authToken
  race  \* Init called from several goroutines: see the section on it

vars == <<single, creds, authToken, lastUpdateTokenTime, held, loopPc, ra, call, stored, race>>
\* the fields of the client and the package variable
session == <<single, creds, authToken, lastUpdateTokenTime>>

Threads == {"caller", "loop"}

\* retry: the activation is a tick that follows a tick which got no new token
IdleRA ==
  [pc |-> "idle", retry |-> FALSE, before |-> EmptyStr, sent |-> << >>,
   closeFailed |-> FALSE, signRsp |-> NoRsp, pend |-> EmptyStr, err |-> NoErr]
NoRet ==
  [res |-> NilRsp, us |-> NilUS, existed |-> FALSE, tok |-> EmptyStr,
   client |-> FALSE, err |-> NoErr]
NoSaved == [res |-> NilRsp, err |-> NoErr]
NewCall(op, arg) ==
  [op |-> op, pc |-> "done", arg |-> arg, body |-> arg, sent |-> << >>,
   saveRsp |-> NoRsp, saved |-> NoSaved, rsp |-> NoRsp, ret |-> NoRet]

\* Init called from several goroutines at once: the package variable holds
\* 0 (nil) or the client object made by thread i; lastOk is the client that
\* the latest successful Init returned
RaceThreads == {1, 2}
ZeroClient == [creds |-> NoParams, authToken |-> EmptyStr, loops |-> 0]
NoRaceRet == [client |-> 0, err |-> NoErr]
RaceIdle ==
  [pc |-> "idle", parms |-> NoParams, c |-> 0, ra |-> IdleRA, seen |-> 0,
   ret |-> NoRaceRet]
RaceStart ==
  [single |-> 0, lastOk |-> 0,
   obj |-> [o \in RaceThreads |-> ZeroClient],
   th |-> [i \in RaceThreads |-> RaceIdle]]

Init ==
  /\ race = RaceStart
  /\ single = "nil"
  /\ creds = NoParams
  /\ authToken = EmptyStr
  /\ lastUpdateTokenTime = "zero"
  /\ held = FALSE
  /\ loopPc = "none"
  /\ ra = [t \in Threads |-> IdleRA]
  /\ call = [NewCall("none", NoParams) EXCEPT !.pc = "idle"]
  /\ stored = {EmptyStr}

\* the caller is between two operations
Ready == call.pc \in {"idle", "done"}

\* -------------------------------------------------------------- refreshAuth
\* lines 203-231: with a held token, CloseAuth sends it to auth_close;
\* without one the auth_sign request goes out at once
RefreshAuthEnter(tok, c) ==
  IF NeedClose(tok)
  THEN [IdleRA EXCEPT !.pc = "closeWait", !.before = tok,
                      !.sent = <<Req("auth_close", tok, "", "", "")>>]
  ELSE [IdleRA EXCEPT !.pc = "signWait", !.before = tok,
                      !.sent = <<Req("auth_sign", EmptyStr, c.AppKey, "", "")>>]

\* lines 205-231: CloseAuth returns inside refreshAuth
RefreshAuthClose(t, R) ==
  /\ ra[t].pc = "closeWait"
  /\ \E rsp \in R :
       LET closed == CloseAuthRet(rsp)
           a == RefreshAuthAfterClose(closed)
       IN
       ra' = [ra EXCEPT ![t] =
                IF a.sign
                THEN [@ EXCEPT !.pc = "signWait", !.closeFailed = IsErr(closed.err),
                               !.sent = Append(@, Req("auth_sign", EmptyStr, creds.AppKey, "", ""))]
                ELSE [@ EXCEPT !.pc = "done", !.closeFailed = IsErr(closed.err),
                               !.err = a.err]]
  /\ UNCHANGED <<single, creds, authToken, lastUpdateTokenTime, held, loopPc, call, stored, race>>

\* lines 231-254: the auth_sign response arrives; on a decodable body the
\* assignment to c.authToken begins with one of its two words
RefreshAuthSign(t, R) ==
  /\ ra[t].pc = "signWait"
  /\ \E rsp \in R :
       LET d == RefreshAuthDecode(rsp) IN
       IF d.store
       THEN /\ \E w \in {"ptr", "len"} :
                 authToken' = IF w = "ptr" THEN [authToken EXCEPT !.ptr = Str(d.tok).ptr]
                                           ELSE [authToken EXCEPT !.len = Str(d.tok).len]
            /\ ra' = [ra EXCEPT ![t] = [@ EXCEPT !.pc = "store", !.signRsp = rsp,
                                                 !.pend = Str(d.tok)]]
       ELSE /\ ra' = [ra EXCEPT ![t] = [@ EXCEPT !.pc = "done", !.signRsp = rsp,
                                                 !.err = d.err]]
            /\ UNCHANGED authToken
  /\ UNCHANGED <<single, creds, lastUpdateTokenTime, held, loopPc, call, stored, race>>

\* lines 254-256: the assignment completes and refreshAuth returns nil
RefreshAuthStore(t) ==
  /\ ra[t].pc = "store"
  /\ authToken' = ra[t].pend
  /\ stored' = stored \cup {ra[t].pend}
  /\ ra' = [ra EXCEPT ![t] = [@ EXCEPT !.pc = "done", !.err = NoErr]]
  /\ UNCHANGED <<single, creds, lastUpdateTokenTime, held, loopPc, call, race>>

\* --------------------------------------------------------------------- Init
\* lines 151-160 and 177: a set singleton is returned as it is; otherwise the
\* client is created from parms and init() enters refreshAuth
InitCall(P) ==
  /\ Ready
  /\ \E parms \in P :
       IF single # "nil"
       THEN /\ call' = [NewCall("Init", parms) EXCEPT !.ret = [NoRet EXCEPT !.client = TRUE]]
            /\ held' = TRUE
            /\ UNCHANGED <<single, creds, authToken, lastUpdateTokenTime, ra>>
       ELSE /\ single' = "client"
            /\ creds' = parms
            /\ authToken' = EmptyStr
            /\ lastUpdateTokenTime' = "zero"
            /\ ra' = [ra EXCEPT !["caller"] = RefreshAuthEnter(EmptyStr, parms)]
            /\ call' = [NewCall("Init", parms) EXCEPT !.pc = "refresh"]
            /\ UNCHANGED held
  /\ UNCHANGED <<loopPc, stored, race>>

\* lines 178-197 and 161-166: refreshAuth has returned to init(); an error
\* goes back to the caller of Init, otherwise the goroutine is started
InitReturn ==
  /\ call.op = "Init" /\ call.pc = "refresh"
  /\ ra["caller"].pc = "done"
  /\ IF IsErr(ra["caller"].err)
     THEN /\ call' = [call EXCEPT !.pc = "done", !.rsp = ra["caller"].signRsp,
                                  !.sent = ra["caller"].sent,
                                  !.ret = [NoRet EXCEPT !.err = Errorf("[GetClient]", ra["caller"].err)]]
          /\ UNCHANGED <<held, loopPc>>
     ELSE /\ call' = [call EXCEPT !.pc = "done", !.rsp = ra["caller"].signRsp,
                                  !.sent = ra["caller"].sent,
                                  !.ret = [NoRet EXCEPT !.client = TRUE]]
          /\ held' = TRUE
          /\ loopPc' = "start"
  /\ ra' = [ra EXCEPT !["caller"] = IdleRA]
  /\ UNCHANGED <<single, creds, authToken, lastUpdateTokenTime, stored, race>>

\* ------------------------------------------------------------- renewal loop
\* lines 184-188: the default interval, then the ticker
LoopStart ==
  /\ loopPc = "start"
  /\ creds' = IF creds.AuthHeartbeat = 0
              THEN [creds EXCEPT !.AuthHeartbeat = DefaultHeartbeat] ELSE creds
  /\ loopPc' = "ticker"
  /\ UNCHANGED <<single, authToken, lastUpdateTokenTime, held, ra, call, stored, race>>

\* the activation of refreshAuth ended without a newly issued token
GotNoToken(r) ==
  r.closeFailed \/ r.signRsp.kind \in FailKinds
    \/ (r.signRsp.kind = "json" /\ r.signRsp.result # "ok")

\* lines 189-191: a tick sets lastUpdateTokenTime and enters refreshAuth;
\* the outcome of the previous refreshAuth was dropped
Tick ==
  /\ loopPc = "ticker"
  /\ ra["loop"].pc \in {"idle", "done"}
  /\ lastUpdateTokenTime' = "tick"
  /\ ra' = [ra EXCEPT !["loop"] =
              [RefreshAuthEnter(authToken, creds) EXCEPT
                 !.retry = ra["loop"].pc = "done" /\ GotNoToken(ra["loop"])]]
  /\ UNCHANGED <<single, creds, authToken, held, loopPc, call, stored, race>>

\* ---------------------------------------------------------------- dispatch
Rest == <<single, creds, authToken, lastUpdateTokenTime, held, loopPc, ra, stored, race>>
Returned(r) == [NoRet EXCEPT !.res = r.res, !.err = r.err]

\* lines 170-172
AuthTokenCall ==
  /\ Ready /\ held
  /\ call' = [NewCall("AuthToken", NoParams) EXCEPT !.ret = [NoRet EXCEPT !.tok = authToken]]
  /\ UNCHANGED Rest

\* lines 260-267, called by the application
CloseAuthCall ==
  /\ Ready /\ held
  /\ call' = [NewCall("CloseAuth", NoParams) EXCEPT
                !.pc = "wait", !.sent = <<Req("auth_close", authToken, "", "", "")>>]
  /\ UNCHANGED Rest

\* lines 267-288
CloseAuthRsp(R) ==
  /\ call.op = "CloseAuth" /\ call.pc = "wait"
  /\ \E rsp \in R :
       call' = [call EXCEPT !.pc = "done", !.rsp = rsp, !.ret = Returned(CloseAuthRet(rsp))]
  /\ UNCHANGED Rest

\* lines 293-315
PushToSingleCall(B) ==
  /\ Ready /\ held
  /\ \E body \in B :
       IF ~PushToSingleValid(body)
       THEN call' = [NewCall("PushToSingle", body) EXCEPT
                       !.ret = [NoRet EXCEPT !.err = <<"[PushToSingle]", "bad target">>]]
       ELSE LET b == PushToSingleStamp(body) IN
            call' = [NewCall("PushToSingle", body) EXCEPT
                       !.pc = "wait", !.body = b,
                       !.sent = <<Req("push_single", authToken, creds.AppKey, b.RequestID, "")>>]
  /\ UNCHANGED Rest

\* lines 315-340
PushToSingleRsp(R) ==
  /\ call.op = "PushToSingle" /\ call.pc = "wait"
  /\ \E rsp \in R :
       call' = [call EXCEPT !.pc = "done", !.rsp = rsp,
                            !.ret = Returned(PushToSingleRet(call.body, rsp))]
  /\ UNCHANGED Rest

\* lines 345-363
PushToAppCall(B) ==
  /\ Ready /\ held
  /\ \E body \in B :
       LET b == PushToAppStamp(body) IN
       call' = [NewCall("PushToApp", body) EXCEPT
                  !.pc = "wait", !.body = b,
                  !.sent = <<Req("push_app", authToken, creds.AppKey, b.RequestID, "")>>]
  /\ UNCHANGED Rest

\* lines 363-388
PushToAppRsp(R) ==
  /\ call.op = "PushToApp" /\ call.pc = "wait"
  /\ \E rsp \in R :
       call' = [call EXCEPT !.pc = "done", !.rsp = rsp,
                            !.ret = Returned(PushToAppRet(call.body, rsp))]
  /\ UNCHANGED Rest

\* lines 393-404
StopTaskCall ==
  /\ Ready /\ held
  /\ \E taskID \in TaskIDs :
       call' = [NewCall("StopTask", [taskID |-> taskID]) EXCEPT
                  !.pc = "wait", !.sent = <<Req("stop_task", authToken, "", "", taskID)>>]
  /\ UNCHANGED Rest

\* lines 404-427
StopTaskRsp(R) ==
  /\ call.op = "StopTask" /\ call.pc = "wait"
  /\ \E rsp \in R :
       call' = [call EXCEPT !.pc = "done", !.rsp = rsp, !.ret = Returned(StopTaskRet(rsp))]
  /\ UNCHANGED Rest

\* lines 432-443
UserStatusCall ==
  /\ Ready /\ held
  /\ \E cid \in CIDs :
       call' = [NewCall("UserStatus", [cid |-> cid]) EXCEPT
                  !.pc = "wait", !.sent = <<Req("user_status", authToken, "", "", "")>>]
  /\ UNCHANGED Rest

\* lines 443-475
UserStatusRsp(R) ==
  /\ call.op = "UserStatus" /\ call.pc = "wait"
  /\ \E rsp \in R :
       LET r == UserStatusRet(rsp) IN
       call' = [call EXCEPT !.pc = "done", !.rsp = rsp,
                            !.ret = [NoRet EXCEPT !.us = r.res, !.err = r.err]]
  /\ UNCHANGED Rest

\* lines 479-481 with 432-443
UserExistedCall ==
  /\ Ready /\ held
  /\ \E cid \in CIDs :
       call' = [NewCall("UserExisted", [cid |-> cid]) EXCEPT
                  !.pc = "wait", !.sent = <<Req("user_status", authToken, "", "", "")>>]
  /\ UNCHANGED Rest

\* lines 443-475 and 482-490
UserExistedRsp(R) ==
  /\ call.op = "UserExisted" /\ call.pc = "wait"
  /\ \E rsp \in R :
       LET r == UserExistedRet(UserStatusRet(rsp)) IN
       call' = [call EXCEPT !.pc = "done", !.rsp = rsp,
                            !.ret = [NoRet EXCEPT !.existed = r.existed, !.err = r.err]]
  /\ UNCHANGED Rest

\* lines 495-501 and 552-573: the target check, then the save phase is sent
PushToListCall(B) ==
  /\ Ready /\ held
  /\ \E body \in B :
       IF ~PushToListValid(body)
       THEN call' = [NewCall("PushToList", body) EXCEPT
                       !.ret = [NoRet EXCEPT !.err = <<"[PushToList]", "bad target">>]]
       ELSE call' = [NewCall("PushToList", body) EXCEPT
                       !.pc = "saveWait",
                       !.sent = <<Req("save_list_body", authToken, creds.AppKey, "", "")>>]
  /\ UNCHANGED Rest

\* lines 573-595 and 501-522: the save phase returns; after a failure
\* PushToList returns, otherwise push_list is sent with the token read now
SaveListBodyRsp(R) ==
  /\ call.op = "PushToList" /\ call.pc = "saveWait"
  /\ \E rsp \in R :
       LET saved == SaveListBodyRet(rsp)
           a == PushToListAfterSave(saved)
       IN
       IF a.push
       THEN call' = [call EXCEPT
                       !.pc = "wait", !.saveRsp = rsp, !.saved = saved,
                       !.sent = Append(@, Req("push_list", authToken, creds.AppKey, "", a.taskid))]
       ELSE call' = [call EXCEPT !.pc = "done", !.saveRsp = rsp, !.saved = saved,
                                 !.ret = [NoRet EXCEPT !.err = a.err]]
  /\ UNCHANGED Rest

\* lines 522-547
PushToListRsp(R) ==
  /\ call.op = "PushToList" /\ call.pc = "wait"
  /\ \E rsp \in R :
       call' = [call EXCEPT !.pc = "done", !.rsp = rsp,
                            !.ret = Returned(PushToListRet(call.sent[2].taskid, rsp))]
  /\ UNCHANGED Rest

\* ------------------------------------------------- Init from two goroutines
\* the statements of Init and init() as separate steps of thread i; every
\* use of the package variable single is a read of its own
Sequential == <<single, creds, authToken, lastUpdateTokenTime, held, loopPc, ra, call, stored>>

\* line 152: the test of single
RaceInitCall(i, P) ==
  /\ race.th[i].pc \in {"idle", "done"}
  /\ \E parms \in P :
       race' = [race EXCEPT !.th[i] =
                  [RaceIdle EXCEPT !.pc = IF race.single = 0 THEN "new" ELSE "return",
                                   !.parms = parms, !.seen = race.lastOk]]
  /\ UNCHANGED Sequential

\* line 153: single = new(client)
RaceNew(i) ==
  /\ race.th[i].pc = "new"
  /\ race' = [race EXCEPT !.single = i, !.obj[i] = ZeroClient, !.th[i].pc = "fillKey"]
  /\ UNCHANGED Sequential

\* lines 154-157: the credentials go into whatever single points to
RaceFillKey(i) ==
  /\ race.th[i].pc = "fillKey"
  /\ race' = [race EXCEPT !.obj[race.single].creds.AppKey = race.th[i].parms.AppKey,
                          !.th[i].pc = "fillHb"]
  /\ UNCHANGED Sequential

\* line 158
RaceFillHb(i) ==
  /\ race.th[i].pc = "fillHb"
  /\ race' = [race EXCEPT
                !.obj[race.single].creds.AuthHeartbeat = race.th[i].parms.AuthHeartbeat,
                !.th[i].pc = "init"]
  /\ UNCHANGED Sequential

\* lines 160, 177 and 203-231: single.init() enters refreshAuth on the
\* object single points to now
RaceInitEnter(i) ==
  /\ race.th[i].pc = "init"
  /\ LET c == race.single IN
     race' = [race EXCEPT
                !.th[i].c = c,
                !.th[i].ra = RefreshAuthEnter(race.obj[c].authToken, race.obj[c].creds),
                !.th[i].pc = "refresh"]
  /\ UNCHANGED Sequential

\* lines 205-231
RaceClose(i, R) ==
  /\ race.th[i].pc = "refresh" /\ race.th[i].ra.pc = "closeWait"
  /\ \E rsp \in R :
       LET closed == CloseAuthRet(rsp)
           a == RefreshAuthAfterClose(closed)
           c == race.th[i].c
       IN
       race' = [race EXCEPT !.th[i].ra =
                  IF a.sign
                  THEN [@ EXCEPT !.pc = "signWait", !.closeFailed = IsErr(closed.err),
                                 !.sent = Append(@, Req("auth_sign", EmptyStr,
                                                        race.obj[c].creds.AppKey, "", ""))]
                  ELSE [@ EXCEPT !.pc = "done", !.closeFailed = IsErr(closed.err),
                                 !.err = a.err]]
  /\ UNCHANGED Sequential

\* lines 231-254
RaceSign(i, R) ==
  /\ race.th[i].pc = "refresh" /\ race.th[i].ra.pc = "signWait"
  /\ \E rsp \in R :
       LET d == RefreshAuthDecode(rsp)
           c == race.th[i].c
       IN
       IF d.store
       THEN \E w \in {"ptr", "len"} :
              race' = [race EXCEPT
                         !.obj[c].authToken =
                            IF w = "ptr" THEN [@ EXCEPT !.ptr = Str(d.tok).ptr]
                                         ELSE [@ EXCEPT !.len = Str(d.tok).len],
                         !.th[i].ra = [@ EXCEPT !.pc = "store", !.signRsp = rsp,
                                                !.pend = Str(d.tok)]]
       ELSE race' = [race EXCEPT
                       !.th[i].ra = [@ EXCEPT !.pc = "done", !.signRsp = rsp, !.err = d.err]]
  /\ UNCHANGED Sequential

\* lines 254-256
RaceStore(i) ==
  /\ race.th[i].pc = "refresh" /\ race.th[i].ra.pc = "store"
  /\ race' = [race EXCEPT !.obj[race.th[i].c].authToken = race.th[i].ra.pend,
                          !.th[i].ra = [@ EXCEPT !.pc = "done", !.err = NoErr]]
  /\ UNCHANGED Sequential

\* lines 178-197 and 161-163: an error of refreshAuth is returned; otherwise
\* a renewal goroutine is started on the receiver
RaceInitReturn(i) ==
  /\ race.th[i].pc = "refresh" /\ race.th[i].ra.pc = "done"
  /\ IF IsErr(race.th[i].ra.err)
     THEN race' = [race EXCEPT
                     !.th[i].pc = "done",
                     !.th[i].ret = [client |-> 0,
                                    err |-> Errorf("[GetClient]", race.th[i].ra.err)],
                     !.th[i].ra = IdleRA]
     ELSE race' = [race EXCEPT
                     !.obj[race.th[i].c].loops = @ + 1,
                     !.th[i].pc = "return",
                     !.th[i].ra = IdleRA]
  /\ UNCHANGED Sequential

\* line 166: return single, nil
RaceReturn(i) ==
  /\ race.th[i].pc = "return"
  /\ race' = [race EXCEPT !.th[i].pc = "done",
                          !.th[i].ret = [client |-> race.single, err |-> NoErr],
                          !.lastOk = race.single]
  /\ UNCHANGED Sequential

\* ----------------------------------------------------------- specifications
\* the caller and the renewal goroutine, interleaved
Next ==
  \/ InitCall(CoreInitParams)
  \/ InitReturn
  \/ LoopStart
  \/ Tick
  \/ \E t \in Threads : RefreshAuthClose(t, CoreRsps)
  \/ \E t \in Threads : RefreshAuthSign(t, AuthSignRsps)
  \/ \E t \in Threads : RefreshAuthStore(t)
  \/ AuthTokenCall
  \/ CloseAuthCall
  \/ CloseAuthRsp(CoreRsps)
  \/ PushToSingleCall(CoreSingleBodies)
  \/ PushToSingleRsp(CoreRsps)
  \/ PushToAppCall(CoreAppBodies)
  \/ PushToAppRsp(CoreRsps)
  \/ StopTaskCall
  \/ StopTaskRsp(CoreRsps)
  \/ UserStatusCall
  \/ UserStatusRsp(CoreUserStatusRsps)
  \/ UserExistedCall
  \/ UserExistedRsp(CoreUserStatusRsps)
  \/ PushToListCall(CoreListBodies)
  \/ SaveListBodyRsp(CoreRsps)
  \/ PushToListRsp(CoreRsps)

Spec == Init /\ [][Next]_vars

\* the caller alone, between two ticks of the renewal timer, with every
\* request body and every response of the endpoints
NextDispatch ==
  \/ InitCall(InitParams)
  \/ InitReturn
  \/ LoopStart
  \/ RefreshAuthSign("caller", AuthSignRsps)
  \/ RefreshAuthStore("caller")
  \/ AuthTokenCall
  \/ CloseAuthCall
  \/ CloseAuthRsp(EnvelopeRsps)
  \/ PushToSingleCall(SingleBodies)
  \/ PushToSingleRsp(EnvelopeRsps)
  \/ PushToAppCall(AppBodies)
  \/ PushToAppRsp(EnvelopeRsps)
  \/ StopTaskCall
  \/ StopTaskRsp(EnvelopeRsps)
  \/ UserStatusCall
  \/ UserStatusRsp(UserStatusRsps)
  \/ UserExistedCall
  \/ UserExistedRsp(UserStatusRsps)
  \/ PushToListCall(ListBodies)
  \/ SaveListBodyRsp(EnvelopeRsps)
  \/ PushToListRsp(EnvelopeRsps)

SpecDispatch == Init /\ [][NextDispatch]_vars

\* goroutines calling Init, before the first tick of a renewal timer
NextRace ==
  \/ \E i \in RaceThreads : RaceInitCall(i, CoreInitParams)
  \/ \E i \in RaceThreads : RaceNew(i)
  \/ \E i \in RaceThreads : RaceFillKey(i)
  \/ \E i \in RaceThreads : RaceFillHb(i)
  \/ \E i \in RaceThreads : RaceInitEnter(i)
  \/ \E i \in RaceThreads : RaceClose(i, CoreRsps)
  \/ \E i \in RaceThreads : RaceSign(i, AuthSignRsps)
  \/ \E i \in RaceThreads : RaceStore(i)
  \/ \E i \in RaceThreads : RaceInitReturn(i)
  \/ \E i \in RaceThreads : RaceReturn(i)

SpecRace == Init /\ [][NextRace]_vars

TypeOK ==
  /\ single \in {"nil", "client"}
  /\ lastUpdateTokenTime \in {"zero", "tick"}
  /\ held \in BOOLEAN
  /\ loopPc \in {"none", "start", "ticker"}
  /\ authToken \in [ptr : 0..MaxToken, len : 0..MaxToken]
  /\ \A t \in Threads : ra[t].pc \in {"idle", "closeWait", "signWait", "store", "done"}
  /\ call.pc \in {"idle", "refresh", "saveWait", "wait", "done"}
  /\ race.single \in {0} \cup RaceThreads
  /\ \A i \in RaceThreads :
       race.th[i].pc \in {"idle", "new", "fillKey", "fillHb", "init", "refresh",
                          "return", "done"}

\* ------------------------------------------------------------------ claims
\* the string a reader gets from the two words: no bytes when len is 0
Value(str) == IF str.len = 0 THEN EmptyStr ELSE str
\* the thread's refreshAuth sent a request to the endpoint
SentTo(r, ep) == \E i \in 1..Len(r.sent) : r.sent[i].ep = ep
\* the issuance step failed: transport, undecodable, or result not "ok"
Failed(rsp) ==
  rsp.kind \in FailKinds \/ (rsp.kind = "json" /\ rsp.result # "ok")
\* the Init call that found the process fresh has returned, and the renewal
\* goroutine has not ticked yet
FirstInitReturned ==
  /\ call.op = "Init" /\ call.pc = "done"
  /\ SentTo(call, "auth_sign")
  /\ ra["loop"].pc = "idle"

\* C1: when the Init call on a fresh process has returned, either it
\* returned an error or AuthToken() is non-empty; never a nil error with an
\* empty token.
C1_InitTokenOrError ==
  (FirstInitReturned /\ ~IsErr(call.ret.err)) => StrLen(Value(authToken)) > 0

\* C2: in a renewal tick that found a token stored, every auth_sign request
\* was preceded in that tick by an auth_close request carrying that token
\* (and that request was answered with success).
C2_RevokeBeforeIssue ==
  LET r == ra["loop"] IN
  \A i \in 1..Len(r.sent) :
    (r.sent[i].ep = "auth_sign" /\ StrLen(r.before) > 0) =>
      /\ \E j \in 1..(i - 1) : r.sent[j].ep = "auth_close" /\ r.sent[j].tok = r.before
      /\ ~r.closeFailed
C2_Witness ==
  /\ loopPc = "ticker"
  /\ StrLen(ra["loop"].before) > 0
  /\ SentTo(ra["loop"], "auth_sign")

\* C3: every token value the caller has read, by AuthToken() or for the
\* authtoken header of a request, is a string that was at some point stored
\* completely; never a mix of two strings' words.
C3_ReadsSeeStoredTokens ==
  /\ call.op = "AuthToken" => Value(call.ret.tok) \in stored
  /\ \A i \in 1..Len(call.sent) : Value(call.sent[i].tok) \in stored

\* C4: in PushToList a push_list request is sent only after the save phase
\* returned result "ok"; when the save phase failed the call returns a nil
\* result with an error and has sent no push_list request.
C4_SaveFailureShortCircuits ==
  call.op = "PushToList" =>
    /\ SentTo(call, "push_list") =>
         (~IsErr(call.saved.err) /\ call.saved.res.Result = "ok"
          /\ call.saveRsp.kind = "json" /\ call.saveRsp.result = "ok")
    /\ (call.pc = "done" /\ call.saveRsp.kind # "none" /\ Failed(call.saveRsp)) =>
         (call.ret.res = NilRsp /\ IsErr(call.ret.err) /\ ~SentTo(call, "push_list"))
C4_Witness ==
  /\ call.op = "PushToList" /\ call.pc = "done"
  /\ call.saveRsp.kind = "json" /\ call.saveRsp.result = "error"
  /\ SentTo(call, "save_list_body")

\* C5: UserExisted returns (false, nil) on the result "no_user", (true, nil)
\* on "ok", and an error on every other result.
C5_UserExistedByResult ==
  (call.op = "UserExisted" /\ call.pc = "done" /\ call.rsp.kind = "json") =>
    IF call.rsp.result = "no_user" THEN ~call.ret.existed /\ ~IsErr(call.ret.err)
    ELSE IF call.rsp.result = "ok" THEN call.ret.existed /\ ~IsErr(call.ret.err)
    ELSE IsErr(call.ret.err)

\* C6: after a renewal tick whose issuance step failed (transport failure,
\* undecodable response or result not "ok") the stored token is the one
\* stored before the tick.
C6_StaleTokenKept ==
  LET r == ra["loop"] IN
  (r.pc = "done" /\ Failed(r.signRsp)) => authToken = r.before

\* C7 as claimed: a renewal tick whose revocation call failed has still sent
\* an auth_sign request when it ends.
C7_IssueAfterFailedRevoke ==
  LET r == ra["loop"] IN
  (r.pc = "done" /\ r.closeFailed) => SentTo(r, "auth_sign")
\* C7 as amended: a renewal tick whose revocation call failed sends no
\* auth_sign request; refreshAuth returns the error and the stored token is
\* the one stored before the tick.
C7_FailedRevokeAbortsTick ==
  LET r == ra["loop"] IN
  r.closeFailed =>
    (r.pc = "done" /\ ~SentTo(r, "auth_sign") /\ IsErr(r.err) /\ authToken = r.before)
C7_Witness ==
  /\ ra["loop"].closeFailed /\ ra["loop"].pc = "done"
  /\ SentTo(ra["loop"], "auth_close")

\* C8: the step in which CloseAuth returns success, to the application or
\* to refreshAuth, leaves the stored token empty.
C8_CloseAuthClearsToken ==
  [][(\/ /\ call.op = "CloseAuth" /\ call.pc = "wait"
         /\ call'.pc = "done" /\ ~IsErr(call'.ret.err)
      \/ /\ ra["loop"].pc = "closeWait"
         /\ ra'["loop"].pc = "signWait")
     => StrLen(Value(authToken')) = 0]_vars

\* the response that ended the call of an envelope operation
EnvelopeOps == {"PushToSingle", "PushToApp", "PushToList", "StopTask", "CloseAuth"}
LastRsp == IF call.op = "PushToList" /\ call.rsp.kind = "none" THEN call.saveRsp ELSE call.rsp
DescOf(rsp) == IF rsp.desc = Absent THEN "" ELSE rsp.desc
\* C9: an envelope operation that got a decodable response returns, for
\* result "ok" with taskid T, a nil error and a result with TaskID T, and
\* for any other result a nil result and an error whose message contains
\* the response's description, whatever the HTTP status (the same holds of
\* saveListBody inside PushToList).
C9_EnvelopeDecoding ==
  /\ (call.op \in EnvelopeOps /\ call.pc = "done" /\ LastRsp.kind = "json") =>
       IF LastRsp.result = "ok"
       THEN LastRsp.taskid # Absent =>
              (~IsErr(call.ret.err) /\ call.ret.res.TaskID = LastRsp.taskid)
       ELSE /\ call.ret.res = NilRsp
            /\ IsErr(call.ret.err)
            /\ Contains(call.ret.err, DescOf(LastRsp))
  /\ (call.op = "PushToList" /\ call.saveRsp.kind = "json") =>
       IF call.saveRsp.result = "ok"
       THEN call.saveRsp.taskid # Absent =>
              (~IsErr(call.saved.err) /\ call.saved.res.TaskID = call.saveRsp.taskid)
       ELSE /\ call.saved.res = NilRsp
            /\ IsErr(call.saved.err)
            /\ Contains(call.saved.err, DescOf(call.saveRsp))
C9_Witness ==
  /\ call.op = "PushToList" /\ call.pc = "done"
  /\ call.saveRsp.result = "ok" /\ call.saveRsp.taskid = "T1"
  /\ call.rsp.kind = "json" /\ call.rsp.http = 200
  /\ call.rsp.result = "error" /\ call.rsp.desc = "quota exceeded"

\* the body names neither a device identifier nor an alias
NoTarget(op, arg) ==
  IF op = "PushToSingle" THEN arg.CID = "" /\ arg.Alias = ""
  ELSE Len(arg.CID) = 0 /\ arg.Alias = ""
\* C10: a PushToSingle or PushToList call whose body has neither CID nor
\* alias returns at once a nil result and an error, has sent no request,
\* and changes nothing of the session.
C10_NoTargetRejected ==
  [][(/\ Ready
      /\ call' # call
      /\ call'.op \in {"PushToSingle", "PushToList"}
      /\ NoTarget(call'.op, call'.arg))
     => /\ call'.pc = "done"
        /\ call'.ret.res = NilRsp
        /\ IsErr(call'.ret.err)
        /\ call'.sent = << >>
        /\ UNCHANGED <<session, held, loopPc, ra>>]_vars
C10_Witness ==
  /\ call.op = "PushToList" /\ call.pc = "done"
  /\ NoTarget(call.op, call.arg)
  /\ IsErr(call.ret.err)
  /\ loopPc = "ticker"


\* the caller is in, or has returned from, a push that carries a request id
InPush == call.op \in {"PushToSingle", "PushToApp"} /\ Len(call.sent) > 0
\* the identifier in the outgoing body is the caller's when it gave one and
\* a generated non-empty one otherwise
SentRequestID ==
  InPush =>
    /\ call.arg.RequestID # "" => call.sent[1].reqid = call.arg.RequestID
    /\ call.arg.RequestID = "" => call.sent[1].reqid # ""
PushSucceeded == InPush /\ call.pc = "done" /\ ~IsErr(call.ret.err)
\* C11 as claimed: PushToSingle and PushToApp send the caller's request
\* identifier unchanged, or a generated non-empty one when it is empty, and
\* on success the returned RequestID is the identifier that was sent.
C11_RequestIDReturned ==
  /\ SentRequestID
  /\ PushSucceeded => call.ret.res.RequestID = call.sent[1].reqid
\* C11 as amended: ... and on success the returned RequestID is the
\* identifier that was sent when the response body has no requestID field,
\* and the response's requestID when it has one.
C11_RequestIDReturnedUnlessOverwritten ==
  /\ SentRequestID
  /\ PushSucceeded =>
       call.ret.res.RequestID =
         IF call.rsp.requestID = Absent THEN call.sent[1].reqid ELSE call.rsp.requestID
C11_Witness ==
  /\ call.op = "PushToSingle" /\ PushSucceeded
  /\ call.arg.RequestID = "R1"
  /\ call.rsp.requestID = "RX"
  /\ call.ret.res.RequestID = "RX"


\* thread i's Init call has returned a client with a nil error
RaceSucceeded(i) ==
  /\ race.th[i].pc = "done"
  /\ race.th[i].ret.client # 0
  /\ ~IsErr(race.th[i].ret.err)
\* C12: whatever the interleaving of Init calls, no client has more than
\* one renewal goroutine, and a client that Init has returned with a nil
\* error has exactly one.
C12_OneRenewalLoop ==
  /\ \A o \in RaceThreads : race.obj[o].loops <= 1
  /\ \A i \in RaceThreads : RaceSucceeded(i) => race.obj[race.th[i].ret.client].loops = 1


\* C13: refreshAuth writes the stored token only after an issuance response
\* with result "ok"; after a decodable response with any other result it
\* returns an error and has not written the token.
C13_StoreOnlyOnOk ==
  \A t \in Threads :
    LET r == ra[t] IN
    /\ r.pc = "store" => (r.signRsp.kind = "json" /\ r.signRsp.result = "ok")
    /\ (r.signRsp.kind = "json" /\ r.signRsp.result # "ok") =>
         (r.pc = "done" /\ IsErr(r.err))


\* C14, its safety part: a renewal tick that follows a tick on which no new
\* token was acquired has sent an auth_sign request when it ends.
C14_FailedRenewalRetried ==
  LET r == ra["loop"] IN
  (r.pc = "done" /\ r.retry) => SentTo(r, "auth_sign")


\* C15: no dispatch operation retries. One call of PushToSingle, PushToApp,
\* StopTask, UserStatus or CloseAuth has sent at most one request; one call of
\* PushToList has sent at most one save_list_body and at most one push_list
\* request; a call whose request failed in transport has ended with a non-nil
\* error and a nil result, the failed request being the last one it sent.
SingleRequestOps == {"PushToSingle", "PushToApp", "StopTask", "UserStatus", "CloseAuth"}
SentCount(ep) == Cardinality({i \in 1..Len(call.sent) : call.sent[i].ep = ep})
TransportFailed == call.rsp.kind = "neterr" \/ call.saveRsp.kind = "neterr"
C15_NoRetry ==
  /\ call.op \in SingleRequestOps => Len(call.sent) <= 1
  /\ call.op = "PushToList" =>
       /\ SentCount("save_list_body") <= 1
       /\ SentCount("push_list") <= 1
       /\ Len(call.sent) <= 2
  /\ (call.op \in SingleRequestOps \cup {"PushToList"} /\ TransportFailed) =>
       /\ call.pc = "done"
       /\ IsErr(call.ret.err)
       /\ call.ret.res = NilRsp /\ call.ret.us = NilUS
       /\ call.saveRsp.kind = "neterr" => Len(call.sent) = 1
C15_Witness ==
  /\ call.op = "PushToList" /\ call.pc = "done"
  /\ call.saveRsp.kind = "json" /\ call.rsp.kind = "neterr"
  /\ Len(call.sent) = 2 /\ IsErr(call.ret.err) /\ call.ret.res = NilRsp


\* C16: an Init call that has returned a non-nil client with a nil error
\* implies that a token acquisition succeeded for the client (a non-empty
\* token was stored in it) and that its renewal loop has been started.
InitGaveClient ==
  call.op = "Init" /\ call.pc = "done" /\ call.ret.client /\ ~IsErr(call.ret.err)
C16_ClientOnlyAfterAcquisition ==
  InitGaveClient =>
    /\ loopPc # "none"
    /\ \E s \in stored : StrLen(s) > 0


\* C17: no request of a dispatch operation carries a token that was never
\* issued to the client or that the client had successfully revoked when the
\* operation read it. A step that sends a request of PushToSingle, PushToApp,
\* PushToList (either phase), StopTask or UserStatus reads a non-empty token
\* that was stored from an issuance, and not one whose revocation has been
\* answered with success without a token being issued since.
TokenOps == {"PushToSingle", "PushToApp", "PushToList", "StopTask", "UserStatus"}
\* the renewal tick in progress (or the last one) revoked tok and no
\* issuance has been stored after it
RevokedByLoop(tok) ==
  LET r == ra["loop"] IN
  /\ r.pc \in {"signWait", "done"}
  /\ SentTo(r, "auth_close") /\ ~r.closeFailed
  /\ r.pc = "done" => Failed(r.signRsp)
  /\ StrLen(r.before) > 0 /\ tok = r.before
\* the caller's CloseAuth has just revoked tok and the loop has not run
RevokedByCaller(tok) ==
  /\ call.op = "CloseAuth" /\ call.pc = "done" /\ ~IsErr(call.ret.err)
  /\ ra["loop"].pc = "idle"
  /\ StrLen(Value(tok)) > 0 /\ tok = call.sent[1].tok
C17_TokenIssuedNotRevoked ==
  [][(call'.op \in TokenOps /\ call'.pc \in {"saveWait", "wait"} /\ call'.pc # call.pc)
     => LET tok == call'.sent[Len(call'.sent)].tok IN
        /\ StrLen(Value(tok)) > 0 /\ Value(tok) \in stored
        /\ ~RevokedByLoop(tok) /\ ~RevokedByCaller(tok)]_vars


\* C18: within one PushToList call the save_list_body request and the
\* push_list request carry the same token.
C18_SameTokenInBothPhases ==
  (call.op = "PushToList" /\ Len(call.sent) = 2) => call.sent[2].tok = call.sent[1].tok


\* C19: Init is idempotent after success. An Init call that began after some
\* Init call had returned a client with a nil error builds no client and
\* sends no request (it only returns), and it returns that same client with
\* a nil error.
C19_InitIdempotent ==
  \A i \in RaceThreads :
    race.th[i].seen # 0 =>
      /\ race.th[i].pc \in {"return", "done"}
      /\ race.th[i].pc = "done" =>
           /\ race.th[i].ret.client = race.th[i].seen
           /\ ~IsErr(race.th[i].ret.err)

====
